---- MODULE Spec2Model ----
(***************************************************************************)
(* Model of the profile-fitting driver of hipercam/fitting.py: combFit,    *)
(* fitGaussian / fitMoffat, the function objects Mfit1/Dmfit1/Mfit2/Dmfit2 *)
(* (Gfit1/...), scipy's leastsq as an external nondeterministic solver,    *)
(* the two-stage FWHM strategy and the sigma-clipping rejection loop; and   *)
(* of the parameter input of hipercam/input.py: Input.__init__,            *)
(* Input.get_value and Input.get_rest.                                     *)
(*                                                                         *)
(* Numbers.  Pixel values and sigmas are integers (the inputs are drawn    *)
(* from values whose noise variance is a perfect square).  chisq is an     *)
(* exact rational [n, d].  Scale factors and standard errors are floats of *)
(* the form sqrt(n/d), +inf or NaN, or the integer sentinel -1; they are   *)
(* records [k, n, d] with k in {"sqrt", "inf", "nan", "int"}.              *)
(***************************************************************************)
EXTENDS Integers, Sequences, FiniteSets, TLC

\* ---------------------------------------------------------------- bounds
NPix == 6          \* pixels of the window (1 row of NPix pixels)
MaxOut == 2        \* longest run of pixels on which a model image misses the data
MaxDark == 1       \* leading pixels of the window that are not bright
MaxArgs == 2       \* arguments after the command name in argv

Pix == 1..NPix

\* --------------------------------------------------------- input domains
Methods == {"g", "m", "x"}
ReadVals == {0, 3}
GainVals == {1}
BrightVals == {16}
DarkVals == {0, -9}
FwhmInit == {1, 3}
FwhmMinVals == {2}
ThreshVals == {1, 2}
\* values the solver may return
FwhmVals == {1, 2, 3}
CovScales == {1}
DevVals == {16}

\* ------------------------------------------------------------ arithmetic
Max(a, b) == IF a >= b THEN a ELSE b
Abs(a) == IF a < 0 THEN -a ELSE a

RECURSIVE GCD(_, _)
GCD(a, b) == IF b = 0 THEN a ELSE GCD(b, a % b)

\* exact rational n/d, d > 0, in lowest terms
Rat(n, d) == LET g == GCD(Abs(n), d) IN [n |-> n \div g, d |-> d \div g]
\* (the operands are bound once, as values)
RatAdd(a, b) ==
    CHOOSE r \in {Rat(x.n * y.d + y.n * x.d, x.d * y.d) : x \in {a}, y \in {b}} :
        TRUE

\* floats
FSqrt(n, d) == LET r == Rat(n, d) IN [k |-> "sqrt", n |-> r.n, d |-> r.d]
FInf == [k |-> "inf", n |-> 0, d |-> 1]
FNaN == [k |-> "nan", n |-> 0, d |-> 1]
FInt(i) == [k |-> "int", n |-> i, d |-> 1]
IsFinite(x) == x.k \in {"sqrt", "int"}
\* python's  x > 0  (False for NaN)
FPositive(x) == \/ x.k = "inf"
                \/ x.k \in {"sqrt", "int"} /\ x.n > 0
\* x * s for a non-negative x = sqrt(.) and a scale factor s
FMul(x, s) ==
    CASE s.k = "nan" -> FNaN
      [] s.k = "inf" -> IF x.n = 0 THEN FNaN ELSE FInf
      [] OTHER -> FSqrt(x.n * s.n, x.d * s.d)

\* integer square root; the inputs are chosen so that it is exact
ISqrt(n) == CHOOSE r \in 0..n : r * r <= n /\ (r + 1) * (r + 1) > n
IsSquare(n) == n >= 0 /\ ISqrt(n) * ISqrt(n) = n

\* ----------------------------------------------------------------- state
VARIABLES
    pc,       \* position of the call: "call", "loop", "fallback", "reject",
              \* "done", or the name of the exception that ended it
    arg,      \* arguments of combFit (wind.data is arg.data)
    heap,     \* the numpy sigma arrays, by identity: heap[r] is one array
    mfit1,    \* Mfit1 / Gfit1   : [sigma |-> reference]
    dmfit1,   \* Dmfit1 / Dgfit1 : [sigma |-> reference]
    mfit2,    \* Mfit2 / Gfit2   : [sigma |-> reference, fwhm]
    dmfit2,   \* Dmfit2 / Dgfit2 : [sigma |-> reference, fwhm]
    param, soln, covar, ier,      \* locals of fitMoffat / fitGaussian
    fit,                          \* fit.data
    fitted,                       \* (skyf, heightf, xf, yf, fwhmf[, betaf])
    errors,                       \* (skyfe, heightfe, xfe, yfe, fwhmfe[, betafe])
    chisq, nok1, sfac, nok, nrej,
    result,   \* << >> until the fit function returns, then <<tuple>>
    log,      \* history: one record per leastsq call
    ret,      \* << >> until combFit returns, then <<(pars, epars, extras)>>
    first,    \* << >>, or the result of the run that the loop is re-run after
    other,    \* a second fit call in progress: its position and the sigma
              \* references of its four function objects
    argv,     \* the argument list handed to Input.__init__
    ipc,      \* position of the Input object: "none", "argv", "ready", or
              \* the exception Input.__init__ raised
    prompt,   \* Input._prompt
    pbynam,   \* Input._pbynam : the names given as name=value
    pbypos,   \* Input._pbypos
    narg,     \* Input.narg
    usedef,   \* Input._usedef
    defaults, \* Input._gpars and Input._lpars : the stored defaults
    calls     \* history: one record per get_value call

inputs == <<argv, ipc, prompt, pbynam, pbypos, narg, usedef, defaults, calls>>

vars == <<pc, arg, heap, mfit1, dmfit1, mfit2, dmfit2, param, soln, covar,
          ier, fit, fitted, errors, chisq, nok1, sfac, nok, nrej, result, log,
          ret, first, other, inputs>>

\* what no step of fitGaussian / fitMoffat touches
outside == <<ret, first, other, inputs>>

objs == <<heap, mfit1, dmfit1, mfit2, dmfit2>>
stats == <<chisq, nok1, sfac, nok, nrej>>

Terminal == {"done", "HipercamError", "TypeError", "NotImplementedError"}

\* ------------------------------------------------------- the noise model
\* Mfit1.__init__ :  sigma = sqrt(read**2 + maximum(0, data)/gain)
NoiseVar(read, gain, d) == read * read + Max(0, d) \div gain
NewSigma(read, gain, data) ==
    [p \in Pix |-> ISqrt(NoiseVar(read, gain, data[p]))]

\* ok = sigma > 0
Ok(sig) == {p \in Pix : sig[p] > 0}

\* variant: the sigma arrays kept in one buffer that every call reuses
FreshShared(h, k) == k
\* np.sqrt(...) returns a new array: the k-th array allocated on heap h
Fresh(h, k) == Len(h) + k

\* ------------------------------------------------------------ parameters
\* len(param) of the free-FWHM and of the fixed-FWHM solve
NparFree(method) == IF method = "g" THEN 5 ELSE 6
NparFixed(method) == IF method = "g" THEN 4 ELSE 5

\* param = (sky, height, xcen, ycen, fwhm[, beta])
ParamFree(a) ==
    IF a.method = "g" THEN <<a.sky, a.height, a.xcen, a.ycen, a.fwhm>>
    ELSE <<a.sky, a.height, a.xcen, a.ycen, a.fwhm, a.beta>>
\* variant: a later fixed solve started from the latest fixed solution
ParamFixedWarm(a) ==
    IF Len(soln) = NparFixed(a.method) THEN soln
    ELSE IF a.method = "g" THEN <<a.sky, a.height, a.xcen, a.ycen>>
    ELSE <<a.sky, a.height, a.xcen, a.ycen, a.beta>>
\* param = (sky, height, xcen, ycen[, beta])
ParamFixed(a) ==
    IF a.method = "g" THEN <<a.sky, a.height, a.xcen, a.ycen>>
    ELSE <<a.sky, a.height, a.xcen, a.ycen, a.beta>>

\* skyf, heightf, xf, yf[, betaf] = soln ; fwhmf = the pinned value
WithFwhm(s, f) == SubSeq(s, 1, 4) \o <<f>> \o SubSeq(s, 5, Len(s))

\* variant: fwhmf left as the free solve of this iteration unpacked it
FittedStale(s, f) == WithFwhm(s, IF Len(fitted) >= 5 THEN fitted[5] ELSE f)
\* the fitted values after a fixed solve: (skyf, heightf, xf, yf, fwhmf[, betaf])
Fitted(s, f) == WithFwhm(s, f)

\* np.sqrt(np.diag(covar))
SqrtDiag(cv) == [i \in 1..Len(cv) |-> FSqrt(cv[i], 1)]

\* ------------------------------------------------- the function objects
\* a derivative array, by the parameter it is taken with respect to and the
\* expression that computes it from the grid and the parameter values
D(wrt, expr) == [wrt |-> wrt, expr |-> expr]

\* dgaussian(xy, sky, height, xcen, ycen, fwhm, skip_dfwhm)
Dgaussian(skip_dfwhm) ==
    IF skip_dfwhm
    THEN <<D("sky", "ones_like(x)"),
           D("height", "exp(-alpha*rsq)"),
           D("xcen", "(2*alpha*height)*d_height*xoff"),
           D("ycen", "(2*alpha*height)*d_height*yoff")>>
    ELSE <<D("sky", "ones_like(x)"),
           D("height", "exp(-alpha*rsq)"),
           D("xcen", "(2*alpha*height)*d_height*xoff"),
           D("ycen", "(2*alpha*height)*d_height*yoff"),
           D("fwhm", "(2*alpha*height/fwhm)*d_height*rsq")>>

\* variant: the skip mode drops the last array of the list
DmoffatDropLast(skip_dfwhm) ==
    <<D("sky", "ones_like(x)"),
      D("height", "1/denom**blim"),
      D("xcen", "(2*alpha*blim)*xoff*save1"),
      D("ycen", "(2*alpha*blim)*yoff*save1"),
      D("fwhm", "(2*alpha*blim/fwhm)*save2")>>
    \o (IF skip_dfwhm THEN << >>
        ELSE <<D("beta", "-log(denom)*height*d_height + (4.*log(2)*2**(1/blim)/blim/fwhm**2)*save2")>>)
\* dmoffat(xy, sky, height, xcen, ycen, fwhm, beta, skip_dfwhm)
Dmoffat(skip_dfwhm) ==
    IF skip_dfwhm
    THEN <<D("sky", "ones_like(x)"),
           D("height", "1/denom**blim"),
           D("xcen", "(2*alpha*blim)*xoff*save1"),
           D("ycen", "(2*alpha*blim)*yoff*save1"),
           D("beta", "-log(denom)*height*d_height + (4.*log(2)*2**(1/blim)/blim/fwhm**2)*save2")>>
    ELSE <<D("sky", "ones_like(x)"),
           D("height", "1/denom**blim"),
           D("xcen", "(2*alpha*blim)*xoff*save1"),
           D("ycen", "(2*alpha*blim)*yoff*save1"),
           D("fwhm", "(2*alpha*blim/fwhm)*save2"),
           D("beta", "-log(denom)*height*d_height + (4.*log(2)*2**(1/blim)/blim/fwhm**2)*save2")>>

\* variant: every pixel kept, the rejected ones zero-filled
MaskedZeroFilled(sig) == [p \in 1..NPix |-> p]
\* ok = self.sigma > 0 ; x[ok].ravel() : the pixels of the masked vector, in
\* the order of the array
Masked(sig) == SelectSeq([p \in 1..NPix |-> p], LAMBDA p : sig[p] > 0)

\* Mfit1.__call__ / Mfit2.__call__ (Gfit1 / Gfit2): diff[ok].ravel(), by the
\* pixels its entries belong to
Residuals(sig) == Masked(sig)

\* Dmfit1.__call__ / Dmfit2.__call__ (Dgfit1 / Dgfit2):
\* [(-deriv[ok]/self.sigma[ok]).ravel() for deriv in derivs] : one column
\* per derivative, in the order of derivs, each masked by the same ok; pix
\* are the pixels the entries of a column belong to, fwhm is self.fwhm that
\* Dmfit2 / Dgfit2 hands to dmoffat / dgaussian (0 for Dmfit1 / Dgfit1)
Jacobian(method, skip_dfwhm, sig, fwhm) ==
    [derivs |-> IF method = "g" THEN Dgaussian(skip_dfwhm)
                ELSE Dmoffat(skip_dfwhm),
     pix |-> Masked(sig), fwhm |-> fwhm]

\* ------------------------------------------------------------ the solver
\* the images mfit.model(soln) may be: the data, missed on a run of n of the
\* pixels the solver was given (those with sigma > 0), from the j-th one on;
\* an image that misses any of those also misses the pixels the solver was
\* not given
Rank(p, sig) == Cardinality({q \in Ok(sig) : q <= p})
ModelImages(data, sig) ==
    {[p \in Pix |->
        IF p \in Ok(sig)
        THEN (IF j <= Rank(p, sig) /\ Rank(p, sig) < j + n
              THEN data[p] - dv ELSE data[p])
        ELSE (IF n > 0 THEN data[p] - dv ELSE data[p])] :
        j \in {1, 2}, n \in 0..MaxOut, dv \in DevVals}

\* what scipy.optimize.leastsq(func, param, Dfun, col_deriv, full_output) may
\* do for a residual function over the pixels with sig > 0: raise TypeError
\* when there are more parameters than residuals, otherwise return some
\* (soln, covar, ier); model is the image that mfit.model(soln) evaluates to
\* for the returned soln.
Outcomes(seed, sig, free, data) ==
    IF Len(seed) > Cardinality(Ok(sig))
    THEN {[exc |-> TRUE, ier |-> 0, soln |-> seed, covar |-> seed,
           model |-> data]}
    ELSE
      {[exc |-> FALSE, ier |-> 1,
        soln |-> [j \in 1..Len(seed) |->
                    IF free /\ j = 5 THEN f ELSE seed[j] + 1],
        covar |-> [j \in 1..Len(seed) |-> c * j],
        model |-> img] :
          f \in (IF free THEN FwhmVals ELSE {0}), c \in CovScales,
          img \in ModelImages(data, sig)}
      \cup
      {[exc |-> FALSE, ier |-> 4,
        soln |-> [j \in 1..Len(seed) |->
                    IF free /\ j = 5 THEN f ELSE seed[j] + 2],
        covar |-> [j \in 1..Len(seed) |-> 4 * c * j],
        model |-> data] :
          f \in (IF free THEN FwhmVals ELSE {0}), c \in CovScales}
      \cup
      {[exc |-> FALSE, ier |-> i, soln |-> seed,
        covar |-> [j \in 1..Len(seed) |-> j], model |-> data] : i \in {0, 5}}

\* leastsq and mfit.model are deterministic routines: called again in this
\* fit call with the same function (free or fixed), the same sigma map and
\* the same starting values, leastsq does what it did before; and where the
\* model of that solution was evaluated into fit (used), the sigma map has
\* not changed since, so fit still holds it and the model evaluates to it
Leastsq(seed, sig, free, data) ==
    {o \in Outcomes(seed, sig, free, data) :
        \A i \in 1..Len(log) :
            (log[i].seed = seed /\ log[i].sig = sig
                /\ (log[i].kind = "free") = free) =>
                /\ o.exc = log[i].exc /\ o.ier = log[i].ier
                /\ o.soln = log[i].soln /\ o.covar = log[i].covar
                /\ log[i].used => o.model = fit}

\* used: the model of the solution was evaluated into fit; resid and jac:
\* what func(param) and Dfun(param) return, dsig being the sigma of Dfun;
\* f and df: the FWHM stored in the fixed objects func and Dfun
LogEntry(kind, f, df, seed, sig, dsig, o, used) ==
    [kind |-> kind, fwhm |-> f, seed |-> seed, sig |-> sig,
     nok |-> Cardinality(Ok(sig)), exc |-> o.exc, ier |-> o.ier,
     soln |-> o.soln, covar |-> o.covar, used |-> used,
     resid |-> Residuals(sig),
     jac |-> Jacobian(arg.method, kind # "free", dsig, df)]

\* variant: the upper end of the success range taken as a failure
FailedAbove3(i) == i < 1 \/ i > 3
\* if ier < 1 or ier > 4: raise HipercamError(mesg)
Failed(i) == i < 1 \/ i > 4

\* variant: a free fit that lands exactly on the floor is accepted
FreeFitOkAtFloor(fwhmf, fwhm_min) == fwhmf >= fwhm_min
\* if fwhmf > fwhm_min: "Free fit is OK"
FreeFitOk(fwhmf, fwhm_min) == fwhmf > fwhm_min

\* variant: the floor applied to a caller-fixed FWHM as well
FixedFwhmFloored(a) == Max(a.fwhm, a.fwhm_min)
\* if fwhm_fix: mfit2.fwhm = fwhm ; fwhmf = fwhm
FixedFwhm(a) == a.fwhm

\* variant: the fallback pinned at the input value fwhm
FallbackFwhmInput(a) == a.fwhm
\* else-branch: mfit2.fwhm = fwhm_min ; fwhmf = fwhm_min
FallbackFwhm(a) == a.fwhm_min

\* variant: a final else that fits a Moffat profile for any other tag
SupportedAny(method) == TRUE
\* combFit: if method == 'g' ... elif method == 'm' ... else raise
Supported(method) == method = "g" \/ method = "m"

\* ---------------------------------------------------------- the rejection
\* chisq = (resid[ok]**2).sum()   with  resid = (data - fit)/sigma
RECURSIVE SumTo(_, _, _, _, _)
SumTo(k, P, data, ft, sig) ==
    IF k = 0 THEN Rat(0, 1)
    ELSE IF k \in P
         THEN RatAdd(SumTo(k - 1, P, data, ft, sig),
                     Rat((data[k] - ft[k]) * (data[k] - ft[k]), sig[k] * sig[k]))
         ELSE SumTo(k - 1, P, data, ft, sig)
SumSq(P, data, ft, sig) == SumTo(NPix, P, data, ft, sig)
\* variant: summed over every pixel with a non-zero sigma, rejected or not
ChisqAll(data, ft, sig) == SumSq({p \in Pix : sig[p] # 0}, data, ft, sig)
\* ok = mfit1.sigma > 0 ; chisq = (resid[ok]**2).sum()
Chisq(data, ft, sig) == SumSq(Ok(sig), data, ft, sig)

\* variant: the degrees of freedom guarded to be at least 1
SfacGuarded(chi, dof) == FSqrt(chi.n, chi.d * Max(1, dof))
\* sfac = np.sqrt(chisq/(nok1 - len(soln)))  in numpy float arithmetic
Sfac(chi, dof) ==
    CASE dof > 0 -> FSqrt(chi.n, chi.d * dof)
      [] dof = 0 -> IF chi.n > 0 THEN FInf ELSE FNaN
      [] OTHER   -> IF chi.n > 0 THEN FNaN ELSE FSqrt(0, 1)

\* variant: ties rejected as well
ExceedsOrTies(d, s, sf, thresh) ==
    /\ sf.k = "sqrt"
    /\ d * d * sf.d >= sf.n * thresh * thresh * s * s
\* np.abs(resid) > sfac*thresh  for a pixel with sigma s > 0 (thresh > 0)
Exceeds(d, s, sf, thresh) ==
    /\ sf.k = "sqrt"
    /\ d * d * sf.d > sf.n * thresh * thresh * s * s

\* variant: the sigma of a rejected pixel set to zero
RejectedZeroed(sig, data, ft, sf, thresh) ==
    [p \in Pix |->
        IF p \in Ok(sig) /\ Exceeds(data[p] - ft[p], sig[p], sf, thresh)
        THEN 0 ELSE sig[p]]
\* variant: the mask without  ok & : any pixel above the threshold flipped
RejectedToggled(sig, data, ft, sf, thresh) ==
    [p \in Pix |->
        IF sig[p] # 0 /\ Exceeds(data[p] - ft[p], sig[p], sf, thresh)
        THEN -sig[p] ELSE sig[p]]
\* mfit1.sigma[ok & (np.abs(resid) > sfac*thresh)] *= -1
Rejected(sig, data, ft, sf, thresh) ==
    [p \in Pix |->
        IF p \in Ok(sig) /\ Exceeds(data[p] - ft[p], sig[p], sf, thresh)
        THEN -sig[p] ELSE sig[p]]

\* variant: the objects keep the FWHM they were constructed with
PinStale(obj, f) == obj
\* mfit2.fwhm = fwhm ; dmfit2.fwhm = fwhm   (or fwhm_min)
Pin(obj, f) == [obj EXCEPT !.fwhm = f]

\* variant: the other objects keep the array they were built with
AliasNone(obj, ref) == obj
\* mfit2.sigma = mfit1.sigma ; dmfit1.sigma = ... ; dmfit2.sigma = ...
Alias(obj, ref) == [obj EXCEPT !.sigma = ref]

\* variant: the loop also restarts when nothing more was rejected
MoreRejectedOrSame(n, n1) == n <= n1
\* variant: a single new rejection does not restart the loop
MoreRejectedByTwo(n, n1) == n < n1 - 1
\* if nok < nok1: "some more pixels have been rejected"
MoreRejected(n, n1) == n < n1

\* variant: the scale factor applied twice
RescaleTwice(e, sf) ==
    [i \in 1..Len(e) |->
        IF i = 5 THEN (IF FPositive(e[i]) THEN FMul(FMul(e[i], sf), sf) ELSE e[i])
        ELSE FMul(FMul(e[i], sf), sf)]
\* skyfe *= sfac ... ; if fwhmfe > 0: fwhmfe *= sfac
Rescale(e, sf) ==
    [i \in 1..Len(e) |->
        IF i = 5 THEN (IF FPositive(e[i]) THEN FMul(e[i], sf) ELSE e[i])
        ELSE FMul(e[i], sf)]

\* variant: the family's full parameter count
NparFull(s) == Len(ParamFree(arg))
\* return (...), (..., chisq, nok, nrej, len(soln))
Npar(s) == Len(s)

\* ------------------------------------------------------------------ Init
Windows ==
    {[p \in Pix |-> IF p <= k THEN lo ELSE hi] :
        k \in 0..MaxDark, lo \in DarkVals, hi \in BrightVals}

Args ==
    {a \in [method : Methods, data : Windows, sky : {10}, height : {100},
            xcen : {4}, ycen : {1}, fwhm : FwhmInit, fwhm_min : FwhmMinVals,
            fwhm_fix : BOOLEAN, beta : {4}, read : ReadVals, gain : GainVals,
            thresh : ThreshVals] :
        \A p \in Pix : IsSquare(NoiseVar(a.read, a.gain, a.data[p]))}

\* no second call
NoOther == [pc |-> "none", mfit1 |-> 0, dmfit1 |-> 0, mfit2 |-> 0, dmfit2 |-> 0]

\* no Input object
NoInput ==
    /\ argv = << >>
    /\ ipc = "none"
    /\ prompt = FALSE
    /\ pbynam = << >>
    /\ pbypos = << >>
    /\ narg = 0
    /\ usedef = FALSE
    /\ defaults = [gpars |-> << >>, lpars |-> << >>]
    /\ calls = << >>

\* before combFit is entered
FitInit ==
    /\ pc = "call"
    /\ heap = << >>
    /\ mfit1 = [sigma |-> 0]
    /\ dmfit1 = [sigma |-> 0]
    /\ mfit2 = [sigma |-> 0, fwhm |-> 0]
    /\ dmfit2 = [sigma |-> 0, fwhm |-> 0]
    /\ param = << >>
    /\ soln = << >>
    /\ covar = << >>
    /\ ier = 0
    /\ fit = [p \in Pix |-> 0]
    /\ fitted = << >>
    /\ errors = << >>
    /\ chisq = Rat(0, 1)
    /\ nok1 = 0
    /\ sfac = FNaN
    /\ nok = 0
    /\ nrej = 0
    /\ result = << >>
    /\ log = << >>
    /\ ret = << >>
    /\ first = << >>

Init ==
    /\ arg \in Args
    /\ FitInit
    /\ other = NoOther
    /\ NoInput

\* --------------------------------------------------------------- actions
\* combFit: dispatch on method; fitGaussian / fitMoffat then build the four
\* function objects (two sigma arrays: Dmfit1 shares Mfit1's, Dmfit2 Mfit2's)
CombFit ==
    /\ pc = "call"
    /\ \/ /\ Supported(arg.method)
          /\ heap' = heap \o <<NewSigma(arg.read, arg.gain, arg.data),
                               NewSigma(arg.read, arg.gain, arg.data)>>
          /\ mfit1' = [sigma |-> Fresh(heap, 1)]
          /\ dmfit1' = [sigma |-> Fresh(heap, 1)]
          /\ mfit2' = [sigma |-> Fresh(heap, 2), fwhm |-> arg.fwhm]
          /\ dmfit2' = [sigma |-> Fresh(heap, 2), fwhm |-> arg.fwhm]
          /\ pc' = "loop"
       \/ /\ ~Supported(arg.method)
          /\ pc' = "NotImplementedError"
          /\ UNCHANGED objs
    /\ UNCHANGED <<arg, param, soln, covar, ier, fit, fitted, errors, stats,
                   result, log, outside>>

\* a fixed-FWHM solve with the FWHM pinned at f, then "process results"
SolveFixed(f, kind) ==
    /\ mfit2' = Pin(mfit2, f)
    /\ dmfit2' = Pin(dmfit2, f)
    /\ param' = ParamFixed(arg)
    /\ \E o \in Leastsq(ParamFixed(arg), heap[mfit2.sigma], FALSE, arg.data) :
         /\ log' = Append(log, LogEntry(kind, mfit2'.fwhm, dmfit2'.fwhm,
                                        ParamFixed(arg),
                                        heap[mfit2.sigma],
                                        heap[dmfit2.sigma], o,
                                        ~o.exc /\ ~Failed(o.ier)))
         /\ \/ /\ o.exc
               /\ pc' = "TypeError"
               /\ UNCHANGED <<soln, covar, ier, fit, fitted, errors>>
            \/ /\ ~o.exc
               /\ Failed(o.ier)
               /\ soln' = o.soln /\ covar' = o.covar /\ ier' = o.ier
               /\ pc' = "HipercamError"
               /\ UNCHANGED <<fit, fitted, errors>>
            \/ /\ ~o.exc
               /\ ~Failed(o.ier)
               /\ soln' = o.soln /\ covar' = o.covar /\ ier' = o.ier
               /\ fit' = o.model
               /\ fitted' = Fitted(o.soln, f)
               /\ errors' = WithFwhm(SqrtDiag(o.covar), FInt(-1))
               /\ pc' = "reject"
    /\ UNCHANGED <<arg, heap, mfit1, dmfit1, stats, result, outside>>

\* if fwhm_fix: the FWHM is held fixed at the caller's fwhm
FixedSolve ==
    /\ pc = "loop"
    /\ arg.fwhm_fix
    /\ SolveFixed(FixedFwhm(arg), "fixed")

\* else: FWHM free to vary
FreeSolve ==
    /\ pc = "loop"
    /\ ~arg.fwhm_fix
    /\ param' = ParamFree(arg)
    /\ \E o \in Leastsq(ParamFree(arg), heap[mfit1.sigma], TRUE, arg.data) :
         /\ log' = Append(log, LogEntry("free", 0, 0, ParamFree(arg),
                                        heap[mfit1.sigma],
                                        heap[dmfit1.sigma], o,
                                        /\ ~o.exc /\ ~Failed(o.ier)
                                        /\ FreeFitOk(o.soln[5], arg.fwhm_min)))
         /\ \/ /\ o.exc
               /\ pc' = "TypeError"
               /\ UNCHANGED <<soln, covar, ier, fit, fitted, errors>>
            \/ /\ ~o.exc
               /\ Failed(o.ier)
               /\ soln' = o.soln /\ covar' = o.covar /\ ier' = o.ier
               /\ pc' = "HipercamError"
               /\ UNCHANGED <<fit, fitted, errors>>
            \/ /\ ~o.exc
               /\ ~Failed(o.ier)
               /\ soln' = o.soln /\ covar' = o.covar /\ ier' = o.ier
               /\ fitted' = o.soln
               /\ IF FreeFitOk(o.soln[5], arg.fwhm_min)
                  THEN /\ fit' = o.model
                       /\ errors' = SqrtDiag(o.covar)
                       /\ pc' = "reject"
                  ELSE /\ pc' = "fallback"
                       /\ UNCHANGED <<fit, errors>>
    /\ UNCHANGED <<arg, objs, stats, result, outside>>

\* fall back to fixed FWHM = fwhm_min
FallbackSolve ==
    /\ pc = "fallback"
    /\ SolveFixed(FallbackFwhm(arg), "fallback")

\* "now look for bad outliers" up to the return statement
Reject ==
    /\ pc = "reject"
    /\ \E sig \in {heap[mfit1.sigma]} :
       \E chi \in {Chisq(arg.data, fit, sig)}, n1 \in {Cardinality(Ok(sig))} :
       \E sf \in {Sfac(chi, n1 - Len(soln))} :
       \E new \in {Rejected(sig, arg.data, fit, sf, arg.thresh)} :
       \E n \in {Cardinality(Ok(new))} :
           /\ chisq' = chi
           /\ nok1' = n1
           /\ sfac' = sf
           /\ heap' = [heap EXCEPT ![mfit1.sigma] = new]
           /\ nok' = n
           /\ IF MoreRejected(n, n1)
              THEN /\ mfit2' = Alias(mfit2, mfit1.sigma)
                   /\ dmfit1' = Alias(dmfit1, mfit1.sigma)
                   /\ dmfit2' = Alias(dmfit2, mfit1.sigma)
                   /\ pc' = "loop"
                   /\ UNCHANGED <<nrej, errors, result>>
              ELSE /\ nrej' = NPix - n
                   /\ errors' = Rescale(errors, sf)
                   /\ result' = <<[pars |-> fitted,
                                   sigs |-> Rescale(errors, sf),
                                   fit |-> fit, sigma |-> new, chisq |-> chi,
                                   nok |-> n, nrej |-> NPix - n,
                                   npar |-> Npar(soln)]>>
                   /\ pc' = "done"
                   /\ UNCHANGED <<mfit2, dmfit1, dmfit2>>
    /\ UNCHANGED <<arg, mfit1, param, soln, covar, ier, fit, fitted, log,
                   outside>>

\* variant: the beta argument handed back for a Gaussian fit
CombParsKeepBeta(method, p) == IF method = "g" THEN p \o <<arg.beta>> ELSE p
\* combFit: (sky, height, x, y, fwhm, beta) with  beta = 0.  for method 'g'
CombPars(method, p) == IF method = "g" THEN p \o <<0>> ELSE p
\* combFit: (esky, eheight, ex, ey, efwhm, ebeta) with  ebeta = -1.  for 'g'
CombEpars(method, e) == IF method = "g" THEN e \o <<FInt(-1)>> ELSE e
\* the values that message formats, in the order of the format call
Message(method, p, e, r) ==
    <<p[3], e[3], p[4], e[4], p[5], e[5], p[2], e[2], p[1], e[1]>>
        \o (IF method = "m" THEN <<p[6], e[6]>> ELSE << >>)
        \o <<r.chisq, r.nok, r.nrej>>

\* combFit after fitGaussian / fitMoffat has returned: message, beta and
\* ebeta for 'g', and the return statement
CombReturn ==
    /\ pc = "done"
    /\ ret' = <<[pars |-> CombPars(arg.method, result[1].pars),
                 epars |-> CombEpars(arg.method, result[1].sigs),
                 extras |-> [fit |-> result[1].fit, sigma |-> result[1].sigma,
                             chisq |-> result[1].chisq, nok |-> result[1].nok,
                             nrej |-> result[1].nrej, npar |-> result[1].npar,
                             message |-> Message(arg.method, result[1].pars,
                                                 result[1].sigs, result[1])]]>>
    /\ pc' = "returned"
    /\ UNCHANGED <<arg, objs, param, soln, covar, ier, fit, fitted, errors,
                   stats, result, log, first, other, inputs>>

Next == CombFit \/ FixedSolve \/ FreeSolve \/ FallbackSolve \/ Reject \/ CombReturn

Spec == Init /\ [][Next]_vars

\* combFit is a blocking call on one thread: while a step of it is enabled
\* (leastsq returning or raising included) a step is taken; the calls
\* followed to their end: every method, window, threshold and fwhm_fix, with
\* one starting FWHM, one read noise and no negative data
ArgsLive == {a \in Args : a.fwhm = 3 /\ a.read = 3 /\ a.data[1] >= 0}

InitLive ==
    /\ arg \in ArgsLive
    /\ FitInit
    /\ other = NoOther
    /\ NoInput

SpecLive == InitLive /\ [][Next]_vars /\ WF_vars(Next)

\* ------------------------------------------- the loop run a second time
\* "while True:" entered again after the function has returned, with the
\* function objects and their sigma arrays as the first run left them and
\* with the same arguments
Rerun ==
    /\ pc = "done"
    /\ first = << >>
    /\ first' = result
    /\ result' = << >>
    /\ pc' = "loop"
    /\ UNCHANGED <<arg, objs, param, soln, covar, ier, fit, fitted, errors,
                   stats, log, ret, other, inputs>>

NextRerun == Next \/ Rerun

\* the calls that are run a second time: every method, window, noise input
\* and threshold, from one starting FWHM
ArgsRerun == {a \in Args : a.fwhm = 3}

InitRerun ==
    /\ arg \in ArgsRerun
    /\ FitInit
    /\ other = NoOther
    /\ NoInput

SpecRerun == InitRerun /\ [][NextRerun]_vars

\* --------------------------------------------- a second, interleaved call
\* the windows and noise inputs on which two calls are run side by side
ArgsTwo ==
    {a \in Args : Supported(a.method) /\ a.read = 3 /\ a.fwhm = 3
                    /\ a.data[1] = 0 /\ a.data[2] # 0}

InitTwo ==
    /\ arg \in ArgsTwo
    /\ FitInit
    /\ other = [NoOther EXCEPT !.pc = "call"]
    /\ NoInput

\* the second call builds its four function objects from the same window
\* and the same read and gain
OtherFit ==
    /\ other.pc = "call"
    /\ heap' = heap \o <<NewSigma(arg.read, arg.gain, arg.data),
                         NewSigma(arg.read, arg.gain, arg.data)>>
    /\ other' = [pc |-> "loop",
                 mfit1 |-> Fresh(heap, 1), dmfit1 |-> Fresh(heap, 1),
                 mfit2 |-> Fresh(heap, 2), dmfit2 |-> Fresh(heap, 2)]
    /\ UNCHANGED <<pc, arg, mfit1, dmfit1, mfit2, dmfit2, param, soln, covar,
                   ier, fit, fitted, errors, stats, result, log, ret, first,
                   inputs>>

\* the pixels a rejection step of the second call may flip: none, or (once)
\* the first pixel its sigma map includes; which, is up to its own solves
OtherFlips(sig) ==
    {{}} \cup {{p} : p \in {q \in Ok(sig) :
                              /\ \A x \in Pix : sig[x] >= 0
                              /\ \A x \in Ok(sig) : q <= x}}

\* a rejection step of the second call, on the array of its own mfit1
OtherReject ==
    /\ other.pc = "loop"
    /\ \E P \in OtherFlips(heap[other.mfit1]) :
         /\ heap' = [heap EXCEPT ![other.mfit1] =
                        [p \in Pix |-> IF p \in P THEN -@[p] ELSE @[p]]]
         /\ IF P # {}
            THEN other' = [other EXCEPT !.mfit2 = other.mfit1,
                                        !.dmfit1 = other.mfit1,
                                        !.dmfit2 = other.mfit1]
            ELSE other' = [other EXCEPT !.pc = "done"]
    /\ UNCHANGED <<pc, arg, mfit1, dmfit1, mfit2, dmfit2, param, soln, covar,
                   ier, fit, fitted, errors, stats, result, log, ret, first,
                   inputs>>

NextTwo == Next \/ OtherFit \/ OtherReject

SpecTwo == InitTwo /\ [][NextTwo]_vars

\* ------------------------------------------------- input.py: class Input
\* the parameters of the example of the class docstring, as registered there
Params == {"device", "npoint", "output"}
Rpars ==
    [p \in Params |->
        IF p = "device" THEN [g_or_l |-> "GLOBAL", p_or_h |-> "HIDE"]
        ELSE [g_or_l |-> "LOCAL", p_or_h |-> "PROMPT"]]
\* defval of the get_value calls
Defval(p) == "defval"

\* command-line arguments: a keyword, name=value, or a bare value; name is
\* what the regular expression [a-zA-Z0-9]+= matches up to the equals sign
Word(v) == [k |-> "word", name |-> "", value |-> v]
Named(n, v) == [k |-> "named", name |-> n, value |-> v]
Tokens ==
    {Word("PROMPT"), Word("NODEFS"), Word("20"), Word("\\"),
     Named("npoint", "5")}
Command == Word("command")
Argvs ==
    UNION {{<<Command>> \o t : t \in [1..n -> Tokens]} : n \in 0..MaxArgs}

\* what the default files may hold when Input.__init__ reads them
Stored(v) == [p \in Params |-> v]
Disks ==
    {[gpars |-> g, lpars |-> l] :
        g \in {<< >>, Stored("global")}, l \in {<< >>, Stored("local")}}

\* argv.remove(word): the first occurrence taken out
RECURSIVE Remove(_, _)
Remove(sq, w) ==
    IF sq = << >> THEN << >>
    ELSE IF Head(sq) = w THEN Tail(sq)
    ELSE <<Head(sq)>> \o Remove(Tail(sq), w)
In(w, sq) == \E i \in 1..Len(sq) : sq[i] = w
\* argv after "if 'PROMPT' in argv: argv.remove('PROMPT')" and the same for
\* NODEFS
Strip(sq, w) == IF In(w, sq) THEN Remove(sq, w) ELSE sq

\* for arg in argv: name=value goes to _pbynam, anything else to _pbypos
RECURSIVE ByPos(_)
ByPos(sq) ==
    IF sq = << >> THEN << >>
    ELSE IF Head(sq).k = "named" THEN ByPos(Tail(sq))
    ELSE <<Head(sq).value>> \o ByPos(Tail(sq))
NamesOf(sq) == {sq[i].name : i \in {j \in 1..Len(sq) : sq[j].k = "named"}}
ByNam(sq) ==
    [n \in NamesOf(sq) |->
        sq[CHOOSE i \in 1..Len(sq) : sq[i].k = "named" /\ sq[i].name = n].value]
\* "defined more than once in argument list"
TwiceNamed(sq) ==
    \E i, j \in 1..Len(sq) :
        i < j /\ sq[i].k = "named" /\ sq[j].k = "named" /\ sq[i].name = sq[j].name

InitInput ==
    /\ arg = CHOOSE a \in Args : TRUE
    /\ FitInit
    /\ other = NoOther
    /\ argv \in Argvs
    /\ ipc = "argv"
    /\ prompt = FALSE
    /\ pbynam = << >>
    /\ pbypos = << >>
    /\ narg = 0
    /\ usedef = FALSE
    /\ defaults \in Disks
    /\ calls = << >>

\* Input.__init__(direnv, defdir, argv), followed by the register calls
\* (the keyword LIST is taken out of argv the way PROMPT and NODEFS are and
\* only switches printing on)
InputInit ==
    /\ ipc = "argv"
    /\ LET a1 == Strip(argv, Word("PROMPT"))
           a2 == Strip(a1, Word("NODEFS"))
           rest == Tail(a2)
       IN  IF In(Word("PROMPT"), a1) \/ In(Word("NODEFS"), a2)
              \/ TwiceNamed(rest)
           THEN /\ ipc' = "InputError"
                /\ UNCHANGED <<prompt, pbynam, pbypos, defaults>>
           ELSE /\ ipc' = "ready"
                /\ prompt' = In(Word("PROMPT"), argv)
                /\ defaults' = IF In(Word("NODEFS"), a1)
                               THEN [gpars |-> << >>, lpars |-> << >>]
                               ELSE defaults
                /\ pbynam' = ByNam(rest)
                /\ pbypos' = ByPos(rest)
    /\ narg' = 0
    /\ usedef' = FALSE
    /\ UNCHANGED <<argv, calls, pc, arg, objs, param, soln, covar, ier, fit,
                   fitted, errors, stats, result, log, ret, first, other>>

\* the names bound in the module when get_value runs: its imports and its
\* own functions and classes
ModuleNames ==
    {"os", "re", "sys", "pickle", "readline", "clist", "Input", "Fname"}

\* "try: if isinstance(defval, subs.Fname): ... elif isinstance(defval,
\* basestring): value = str(value)": the first test looks the name subs up
Convert(defval, value) ==
    IF "subs" \in ModuleNames
    THEN [exc |-> "none", value |-> value]
    ELSE [exc |-> "NameError", value |-> value]

\* the stored default of param, or defval
Default(p) ==
    IF Rpars[p].g_or_l = "GLOBAL" /\ p \in DOMAIN defaults.gpars
    THEN defaults.gpars[p]
    ELSE IF Rpars[p].g_or_l = "LOCAL" /\ p \in DOMAIN defaults.lpars
    THEN defaults.lpars[p]
    ELSE Defval(p)

\* variant: any parameter takes the next bare value
TakesPositionalAny(p_or_h, n, len) == n < len
\* elif self.narg < len(self._pbypos) and p_or_h == Input.PROMPT
TakesPositional(p_or_h, n, len) == n < len /\ p_or_h = "PROMPT"

\* self._usedef = True  on a backslash, otherwise left as it is
UseDefaults(flag, slash) == flag \/ slash

\* what the user may type at a prompt ('?' prints help and prompts again)
Replies == {"", "\\", "7"}

\* the parameters get_value has been called for
Asked == {calls[i].param : i \in 1..Len(calls)}

\* Input.get_value(param, prompt, defval) for a registered parameter
GetValue ==
    /\ ipc = "ready"
    /\ \E p \in Params \ Asked, reply \in Replies :
         LET byname == p \in DOMAIN pbynam
             bypos == /\ ~byname
                      /\ TakesPositional(Rpars[p].p_or_h, narg, Len(pbypos))
             taken == IF bypos THEN pbypos[narg + 1] ELSE ""
             prompted == /\ ~byname /\ ~bypos /\ ~usedef
                         /\ (prompt \/ Rpars[p].p_or_h = "PROMPT")
             value == IF byname THEN pbynam[p]
                      ELSE IF bypos
                      THEN (IF taken = "\\" THEN Default(p) ELSE taken)
                      ELSE IF prompted /\ reply \notin {"", "\\"} THEN reply
                      ELSE Default(p)
             slash == \/ bypos /\ taken = "\\"
                      \/ prompted /\ reply = "\\"
             out == Convert(Defval(p), value)
         IN  /\ ~prompted => reply = ""
             /\ narg' = IF bypos THEN narg + 1 ELSE narg
             /\ usedef' = UseDefaults(usedef, slash)
             /\ defaults' =
                   IF out.exc # "none" THEN defaults
                   ELSE IF Rpars[p].g_or_l = "GLOBAL"
                   THEN [defaults EXCEPT !.gpars =
                           [q \in DOMAIN @ \cup {p} |->
                               IF q = p THEN out.value ELSE @[q]]]
                   ELSE [defaults EXCEPT !.lpars =
                           [q \in DOMAIN @ \cup {p} |->
                               IF q = p THEN out.value ELSE @[q]]]
             /\ calls' = Append(calls,
                   [param |-> p,
                    source |-> IF byname THEN "name"
                               ELSE IF bypos THEN "pos" ELSE "default",
                    taken |-> taken, prompted |-> prompted, reply |-> reply,
                    slash |-> slash, default |-> Default(p),
                    value |-> value, exc |-> out.exc])
    /\ UNCHANGED <<argv, ipc, prompt, pbynam, pbypos, pc, arg, objs, param,
                   soln, covar, ier, fit, fitted, errors, stats, result, log,
                   ret, first, other>>

\* Input.get_rest(): the unused bare values, or None
GetRest ==
    IF narg < Len(pbypos)
    THEN [none |-> FALSE, rest |-> SubSeq(pbypos, narg + 1, Len(pbypos))]
    ELSE [none |-> TRUE, rest |-> << >>]

NextInput == InputInit \/ GetValue

SpecInput == InitInput /\ [][NextInput]_vars

\* ================================================================ claims
Sig == heap[mfit1.sigma]             \* the array mfit1.sigma refers to
Last == log[Len(log)]                \* the latest leastsq call
Solved == Len(log') = Len(log) + 1   \* this step called leastsq
Res == result[1]                     \* the returned tuple
LastFree ==                          \* index in log of the latest free solve
    CHOOSE i \in 1..Len(log) :
        /\ log[i].kind = "free"
        /\ \A j \in (i + 1)..Len(log) : log[j].kind # "free"

C2_FloorFallback ==
    (pc = "done" /\ ~arg.fwhm_fix /\ log[LastFree].soln[5] <= arg.fwhm_min) =>
        /\ LastFree = Len(log) - 1
        /\ Last.kind = "fallback"
        /\ Last.fwhm = arg.fwhm_min
        /\ mfit2.fwhm = arg.fwhm_min /\ dmfit2.fwhm = arg.fwhm_min
        /\ Res.pars = SubSeq(Last.soln, 1, 4) \o <<arg.fwhm_min>>
                         \o SubSeq(Last.soln, 5, Len(Last.soln))
        /\ Res.pars[5] = arg.fwhm_min
        /\ Res.sigs[5] = FInt(-1)
        /\ Res.npar = Len(log[LastFree].soln) - 1

\* C2 witness: the free solve landed exactly on the floor
C2_Witness ==
    /\ pc = "done"
    /\ ~arg.fwhm_fix
    /\ log[LastFree].soln[5] = arg.fwhm_min
    /\ Res.pars[5] = arg.fwhm_min

\* C3: with fwhm_fix true every leastsq call is a fixed solve pinned at the
\* caller's fwhm, the driver is never in the free or fallback path, and the
\* result has FWHM = fwhm and FWHM error = -1 whatever fwhm_min is.
C3_FixedFromStart ==
    arg.fwhm_fix =>
        /\ pc # "fallback"
        /\ \A i \in 1..Len(log) :
              /\ log[i].kind = "fixed"
              /\ log[i].fwhm = arg.fwhm
              /\ Len(log[i].seed) = Len(ParamFree(arg)) - 1
        /\ Len(log) > 0 => mfit2.fwhm = arg.fwhm /\ dmfit2.fwhm = arg.fwhm
        /\ pc = "done" => Res.pars[5] = arg.fwhm /\ Res.sigs[5] = FInt(-1)

\* C3 witness: a fixed fit below the floor, returned after a rejection
C3_Witness ==
    /\ pc = "done"
    /\ arg.fwhm_fix
    /\ arg.fwhm < arg.fwhm_min
    /\ Len(log) >= 2

\* the normalised residual of pixel p is strictly above sf*thresh
Above(p, sg, sf) ==
    /\ sf.k = "sqrt"
    /\ (arg.data[p] - fit[p]) * (arg.data[p] - fit[p]) * sf.d
          > sf.n * arg.thresh * arg.thresh * sg[p] * sg[p]
\* ... and exactly equal to it
Tie(p, sg, sf) ==
    /\ sf.k = "sqrt"
    /\ (arg.data[p] - fit[p]) * (arg.data[p] - fit[p]) * sf.d
          = sf.n * arg.thresh * arg.thresh * sg[p] * sg[p]

\* C4: a rejection step flips the sign of exactly the included pixels whose
\* normalised residual is strictly above sfac*thresh; ties and rejected
\* pixels keep their sigma.
C4_StrictRejection ==
    [][pc = "reject" =>
         \A p \in Pix :
            /\ (Sig[p] > 0 /\ Above(p, Sig, sfac')) => Sig'[p] = -Sig[p]
            /\ ~(Sig[p] > 0 /\ Above(p, Sig, sfac')) => Sig'[p] = Sig[p]]_vars

\* C4 witness: a pixel with a non-zero residual exactly at the threshold is
\* still included after the step, next to an earlier rejected pixel
C4_Witness ==
    /\ pc = "done"
    /\ \E p \in Pix : Sig[p] > 0 /\ arg.data[p] # fit[p] /\ Tie(p, Sig, sfac)
    /\ \E q \in Pix : Sig[q] < 0

\* C5: a result is returned only by a rejection step that rejected nothing;
\* a step that rejects goes back to the top of the loop, from where the next
\* step is a leastsq call.
C5_ReturnOnlyWhenClean ==
    [][/\ pc = "reject" =>
            IF \E p \in Pix : Sig'[p] # Sig[p]
            THEN pc' = "loop" /\ result' = << >>
            ELSE pc' = "done" /\ result' # << >>
       /\ pc = "loop" => Solved
       /\ result' # result => pc = "reject"]_vars

\* C5 witness: returned after at least one rejecting iteration
C5_Witness ==
    /\ pc = "done"
    /\ Len(log) >= 2
    /\ Res.nrej > 0

\* C6: nok counts the pixels with sigma > 0, nrej those with sigma < 0, and
\* together they are all the pixels of the window.
C6_Counts ==
    pc = "done" =>
        /\ Res.nok = Cardinality({p \in Pix : Res.sigma[p] > 0})
        /\ Res.nrej = Cardinality({p \in Pix : Res.sigma[p] < 0})
        /\ Res.nok + Res.nrej = NPix

\* position in covar of the error returned at position i
CovIndex(i) == IF i < 5 \/ Res.sigs[5] # FInt(-1) THEN i ELSE i - 1

\* C7: with nok > npar the returned errors are sqrt(diag(covar)) of the last
\* solve times sqrt(chisq/(nok - npar)), once; a FWHM error of -1 is
\* returned as it is.
C7_ErrorsScaledOnce ==
    (pc = "done" /\ Res.nok > Res.npar) =>
        /\ Len(Res.sigs) = Len(ParamFree(arg))
        /\ Len(Last.covar) = Res.npar
        /\ (Res.sigs[5] = FInt(-1)) <=> (Last.kind # "free")
        /\ \A i \in 1..Len(Res.sigs) :
              (i # 5 \/ Last.kind = "free") =>
                 Res.sigs[i] =
                    FSqrt(Last.covar[CovIndex(i)] * Res.chisq.n,
                          Res.chisq.d * (Res.nok - Res.npar))

\* C7 witness: returned from a second iteration, after a rejection, with a
\* scale factor other than 0 and 1 and with the sentinel as FWHM error
C7_Witness ==
    /\ pc = "done"
    /\ Len(log) >= 2
    /\ \E q \in Pix : Res.sigma[q] < 0
    /\ Res.nok > Res.npar
    /\ Res.sigs[5] = FInt(-1)
    /\ Res.chisq.n > 0
    /\ sfac # FSqrt(1, 1)

\* C8: an unsupported method tag ends in NotImplementedError with no object
\* built, no leastsq call and no other variable changed.
C8_UnsupportedMethod ==
    arg.method \notin {"g", "m"} =>
        /\ pc \in {"call", "NotImplementedError"}
        /\ heap = << >>
        /\ log = << >>
        /\ result = << >>
        /\ mfit1.sigma = 0 /\ mfit2.sigma = 0
        /\ soln = << >> /\ errors = << >> /\ nok1 = 0

\* C8 witness
C8_Witness == pc = "NotImplementedError" /\ arg.method = "x"

\* C9: with fwhm_fix false, a call whose first free-FWHM solve failed has
\* tried again with the FWHM held fixed at the input value fwhm.
C9_RetryAtInputFwhm ==
    (/\ pc \in Terminal
     /\ ~arg.fwhm_fix
     /\ Len(log) >= 1
     /\ ~log[1].exc
     /\ log[1].ier \notin 1..4) =>
        \E i \in 2..Len(log) : log[i].kind # "free" /\ log[i].fwhm = arg.fwhm

\* C10: a rejection step with no more included pixels than parameters
\* raises nothing: the scale factor is not finite, no pixel is rejected, and
\* the call returns with non-finite standard errors (the sentinel -1 apart).
C10_DegenerateDof ==
    [][(pc = "reject" /\ Cardinality({p \in Pix : Sig[p] > 0}) <= Len(soln)) =>
          /\ pc' = "done"
          /\ sfac'.k \in {"inf", "nan"}
          /\ Sig' = Sig
          /\ result' # << >>
          /\ \A i \in 1..Len(result'[1].sigs) :
                \/ result'[1].sigs[i].k \in {"inf", "nan"}
                \/ i = 5 /\ result'[1].sigs[i] = FInt(-1)]_vars

\* C10 witness: returned from a step with as many pixels as parameters
C10_Witness ==
    /\ pc = "done"
    /\ Res.nok = Res.npar
    /\ \E q \in Pix : Res.sigma[q] < 0
    /\ Res.sigs[1].k = "inf"

\* C11: applying the rejection step again to a returned result (its fit and
\* its sigma map) flips no pixel; and the loop run again from the returned
\* sigma map, with the same arguments and a deterministic solver, raises
\* nothing and returns the same sigma map, parameters and all other fields.
C11_RejectionIdempotent ==
    /\ pc = "done" =>
          Rejected(Res.sigma, arg.data, Res.fit,
                   Sfac(Chisq(arg.data, Res.fit, Res.sigma),
                        Cardinality(Ok(Res.sigma)) - Res.npar),
                   arg.thresh) = Res.sigma
    /\ first # << >> =>
          /\ pc \in {"loop", "fallback", "reject", "done", "returned"}
          /\ pc \in {"done", "returned"} =>
                /\ Res.sigma = first[1].sigma
                /\ Res.pars = first[1].pars
                /\ Res = first[1]

\* C11 witness: the second run has returned; the first run had rejected a
\* pixel and its last iteration went through the fallback
C11_Witness ==
    /\ pc = "done"
    /\ first # << >>
    /\ \E q \in Pix : first[1].sigma[q] < 0
    /\ Last.kind = "fallback"
    /\ Len(log) >= 5

\* C12: no step writes the caller's data (or any other argument); a sigma
\* array changes only in a rejection step, only the array of the free
\* residual object, and only by sign flips; a step that calls leastsq and
\* evaluates the model leaves every sigma array and every sigma reference as
\* it was, and the FWHM stored in the fixed objects is the value the driver
\* pinned for that solve (untouched by a free solve).
C12_Frame ==
    [][/\ arg' = arg
       /\ \A r \in 1..Len(heap) :
             heap'[r] # heap[r] =>
                /\ pc = "reject"
                /\ r = mfit1.sigma
                /\ \A p \in Pix : heap'[r][p] \in {heap[r][p], -heap[r][p]}
       /\ Solved =>
             /\ heap' = heap
             /\ mfit1' = mfit1 /\ dmfit1' = dmfit1
             /\ mfit2'.sigma = mfit2.sigma /\ dmfit2'.sigma = dmfit2.sigma
             /\ IF log'[Len(log')].kind = "free"
                THEN mfit2' = mfit2 /\ dmfit2' = dmfit2
                ELSE /\ mfit2'.fwhm = log'[Len(log')].fwhm
                     /\ dmfit2'.fwhm = log'[Len(log')].fwhm]_vars

\* C12 witness: a fallback solve has been evaluated on a sigma map in which
\* an earlier rejection step flipped a pixel
C12_Witness ==
    /\ pc = "reject"
    /\ Last.kind = "fallback"
    /\ \E q \in Pix : Sig[q] < 0
    /\ fit # arg.data
    /\ mfit2.fwhm # arg.fwhm

\* the sigma arrays the function objects of this call / of the other call
\* refer to
Mine == {mfit1.sigma, dmfit1.sigma, mfit2.sigma, dmfit2.sigma} \ {0}
Theirs == {other.mfit1, other.dmfit1, other.mfit2, other.dmfit2} \ {0}
\* the variables of this call
call == <<pc, arg, mfit1, dmfit1, mfit2, dmfit2, param, soln, covar, ier, fit,
          fitted, errors, chisq, nok1, sfac, nok, nrej, result, log, ret>>

\* C13: two interleaved calls on the same window and noise inputs hold
\* different sigma arrays; a step of one call changes neither a variable nor
\* a sigma array of the other; and every step of a call is the step it would
\* take alone: its sigma maps start as sqrt(read^2 + max(0, data)/gain), its
\* solves are given its own sigma map, and its rejection step flips what its
\* own fit and its own sigma map say and returns iff nothing was flipped.
C13_NoSharedState ==
    /\ [](Mine \cap Theirs = {})
    /\ [][/\ other' # other =>
               /\ call' = call
               /\ \A r \in Mine : heap'[r] = heap[r]
          /\ call' # call =>
               /\ other' = other
               /\ \A r \in Theirs : heap'[r] = heap[r]
          /\ (pc = "call" /\ pc' = "loop") =>
               /\ heap'[mfit1'.sigma] = NewSigma(arg.read, arg.gain, arg.data)
               /\ heap'[mfit2'.sigma] = NewSigma(arg.read, arg.gain, arg.data)
          /\ Solved => log'[Len(log')].sig = Sig
          /\ (pc = "reject" /\ pc' # pc) =>
               /\ Sig' = Rejected(Sig, arg.data, fit,
                                  Sfac(Chisq(arg.data, fit, Sig),
                                       Cardinality(Ok(Sig)) - Len(soln)),
                                  arg.thresh)
               /\ (pc' = "done") <=> (Sig' = Sig)
               /\ pc' = "done" => result'[1].sigma = Sig]_vars

\* C13 witness: both calls have finished, each after rejecting, and their
\* sigma maps differ
C13_Witness ==
    /\ pc = "done"
    /\ other.pc = "done"
    /\ \E q \in Pix : Sig[q] < 0
    /\ \E q \in Pix : heap[other.mfit1][q] < 0
    /\ Sig # heap[other.mfit1]
    /\ other.mfit1 < mfit1.sigma

\* C14: npar of a returned result is the number of parameters of the last
\* solve: Moffat 6 when the FWHM was fitted and 5 when it was pinned (by the
\* caller or at fwhm_min), Gaussian 5 and 4; and npar is one less than the
\* family's full count exactly when the returned FWHM error is -1.
C14_NparOfFinalSolve ==
    pc = "done" =>
        /\ Res.npar = Len(Last.soln)
        /\ Res.npar = Len(Last.seed)
        /\ Res.npar = (IF arg.method = "m" THEN 6 ELSE 5)
                          - (IF Last.kind = "free" THEN 0 ELSE 1)
        /\ (Last.kind = "fixed") <=> arg.fwhm_fix
        /\ (Res.npar = (IF arg.method = "m" THEN 6 ELSE 5) - 1)
               <=> (Res.sigs[5] = FInt(-1))

\* C14 witness: a Moffat fit returned from the fallback solve
C14_Witness ==
    /\ pc = "done"
    /\ arg.method = "m"
    /\ Last.kind = "fallback"
    /\ Len(log[1].soln) = 6
    /\ Res.npar = 5
    /\ Res.sigs[5] = FInt(-1)

\* C15: combFit returns parameter and error tuples of 6 elements for both
\* methods; for 'g' the beta returned is 0 and its error -1 whatever beta was
\* passed in, for 'm' they are the beta of the last solve and its error; the
\* first five of each are those fitGaussian / fitMoffat returned.
C15_SixTuples ==
    pc = "returned" =>
        /\ arg.method \in {"g", "m"}
        /\ Len(ret[1].pars) = 6 /\ Len(ret[1].epars) = 6
        /\ \A i \in 1..5 :
              ret[1].pars[i] = Res.pars[i] /\ ret[1].epars[i] = Res.sigs[i]
        /\ arg.method = "g" =>
              /\ ret[1].pars[6] = 0 /\ ret[1].epars[6] = FInt(-1)
              /\ Len(Res.pars) = 5 /\ Len(Res.sigs) = 5
        /\ arg.method = "m" =>
              /\ ret[1].pars[6] = Last.soln[Len(Last.soln)]
              /\ ret[1].pars[6] = Res.pars[6]
              /\ ret[1].epars[6] = Res.sigs[6]

\* C15 witness: a Gaussian fit called with a non-zero beta has returned
C15_Witness ==
    /\ pc = "returned"
    /\ arg.method = "g"
    /\ arg.beta # 0
    /\ ret[1].pars[6] = 0
    /\ ret[1].epars[5] # FInt(-1)

\* the bare values handed out by the first n get_value calls, in call order
RECURSIVE Handed(_)
Handed(n) ==
    IF n = 0 THEN << >>
    ELSE Handed(n - 1)
            \o (IF calls[n].source = "pos" THEN <<calls[n].taken>> ELSE << >>)

C18_DefaultsAfterBackslash ==
    /\ [](\A i, j \in 1..Len(calls) :
            (i < j /\ calls[i].slash /\ calls[j].source = "default") =>
                /\ ~calls[j].prompted
                /\ calls[j].exc = "none"
                /\ calls[j].value = calls[j].default)
    /\ [][usedef => usedef']_vars

\* the caller's initial values, with and without the FWHM
Initial5 == <<arg.sky, arg.height, arg.xcen, arg.ycen, arg.fwhm>>
                \o (IF arg.method = "m" THEN <<arg.beta>> ELSE << >>)
Initial4 == <<arg.sky, arg.height, arg.xcen, arg.ycen>>
                \o (IF arg.method = "m" THEN <<arg.beta>> ELSE << >>)

\* C19: every solve starts from the caller's initial values, never from an
\* earlier solution; with fwhm_fix false every iteration begins with a free
\* solve: the first solve is free, a fallback solve directly follows a free
\* solve on the same sigma map, and the solve after a rejection is free,
\* also when the iteration before ended in the fallback.
C19_RestartFromStepOne ==
    /\ [](\A i \in 1..Len(log) :
            /\ log[i].seed = IF log[i].kind = "free" THEN Initial5 ELSE Initial4
            /\ ~arg.fwhm_fix =>
                  /\ log[i].kind \in {"free", "fallback"}
                  /\ i = 1 => log[i].kind = "free"
                  /\ log[i].kind = "fallback" =>
                        /\ log[i - 1].kind = "free"
                        /\ log[i - 1].sig = log[i].sig
                  /\ (i > 1 /\ log[i].sig # log[i - 1].sig) =>
                        log[i].kind = "free")
    /\ [][(pc = "loop" /\ ~arg.fwhm_fix) =>
            /\ Solved
            /\ log'[Len(log')].kind = "free"
            /\ param' = Initial5]_vars

\* C19 witness: the first iteration ended in the fallback and rejected; the
\* second began with a free solve from the same starting values, which are
\* not the solution of either earlier solve
C19_Witness ==
    /\ Len(log) >= 3
    /\ log[2].kind = "fallback"
    /\ log[3].kind = "free"
    /\ log[3].sig # log[2].sig
    /\ log[3].seed = log[1].seed
    /\ log[3].seed # log[1].soln
    /\ ~log[3].exc

\* C20: whenever a solve is about to start (top of the loop, or before the
\* fallback solve), the sigma arrays that the four function objects refer to
\* are equal pixel for pixel, so their sets of included pixels are the same;
\* and the two Jacobian objects refer to the very array of their residual
\* object.
C20_SigmaMapsInSync ==
    pc \in {"loop", "fallback"} =>
        /\ heap[dmfit1.sigma] = heap[mfit1.sigma]
        /\ heap[mfit2.sigma] = heap[mfit1.sigma]
        /\ heap[dmfit2.sigma] = heap[mfit1.sigma]
        /\ Ok(heap[mfit2.sigma]) = Ok(heap[mfit1.sigma])
        /\ dmfit1.sigma = mfit1.sigma
        /\ dmfit2.sigma = mfit2.sigma

\* C20 witness: before the fallback solve of an iteration that follows a
\* rejection made after a fallback solve
C20_Witness ==
    /\ pc = "fallback"
    /\ Len(log) >= 3
    /\ log[2].kind = "fallback"
    /\ \E q \in Pix : Sig[q] < 0
    /\ heap[mfit2.sigma] = Sig

\* C21: in every solve the residual vector holds one entry per pixel with
\* sigma > 0 of the driver's sigma map and none for a rejected pixel; every
\* Jacobian column holds entries for the same pixels in the same order; and
\* the Jacobian has one column per entry of the parameter vector, in the
\* order of the parameters (Gaussian 5 free and 4 fixed, Moffat 6 free and 5
\* fixed with beta last).
C21_MaskedVectors ==
    [][Solved =>
         LET e == log'[Len(log')]
             names == <<"sky", "height", "xcen", "ycen">>
                         \o (IF e.kind = "free" THEN <<"fwhm">> ELSE << >>)
                         \o (IF arg.method = "m" THEN <<"beta">> ELSE << >>)
         IN  /\ Len(e.resid) = Cardinality(Ok(Sig))
             /\ {e.resid[k] : k \in 1..Len(e.resid)} = Ok(Sig)
             /\ \A k \in 1..Len(e.resid) : Sig[e.resid[k]] > 0
             /\ e.jac.pix = e.resid
             /\ Len(e.jac.derivs) = Len(param')
             /\ [c \in 1..Len(e.jac.derivs) |-> e.jac.derivs[c].wrt] = names
             /\ Len(e.jac.derivs) = (IF arg.method = "m" THEN 6 ELSE 5)
                                       - (IF e.kind = "free" THEN 0 ELSE 1)]_vars

\* C21 witness: a fallback Gaussian solve on a sigma map with a rejected
\* pixel: fewer residuals than pixels, four columns of as many entries
C21_Witness ==
    /\ Len(log) >= 3
    /\ arg.method = "g"
    /\ Last.kind = "fallback"
    /\ ~Last.exc
    /\ \E q \in Pix : Sig[q] < 0 /\ \A k \in 1..Len(Last.resid) : Last.resid[k] # q
    /\ Len(Last.resid) < NPix
    /\ Len(Last.jac.derivs) = 4
    /\ Len(Last.jac.pix) = Len(Last.resid)

\* the squared normalised residuals of the current fit over the included
\* pixels among the first k
RECURSIVE IncludedSum(_)
IncludedSum(k) ==
    IF k = 0 THEN Rat(0, 1)
    ELSE IF Sig[k] > 0
         THEN RatAdd(IncludedSum(k - 1),
                     Rat((arg.data[k] - fit[k]) * (arg.data[k] - fit[k]),
                         Sig[k] * Sig[k]))
         ELSE IncludedSum(k - 1)

\* C22: at every rejection step chisq is the sum of the squared normalised
\* residuals of the current fit over the included pixels only, and sfac is
\* sqrt(chisq/(n_included - n_params)) in float arithmetic, n_params being
\* the parameter count of the solve that produced the current fit: the
\* family's full count after a free solve, one fewer after a fixed solve.
C22_ScaleFactor ==
    [][pc = "reject" =>
         LET dof == Cardinality({p \in Pix : Sig[p] > 0}) - Len(Last.soln)
         IN  /\ Last.used
             /\ Len(Last.soln) = (IF arg.method = "m" THEN 6 ELSE 5)
                                    - (IF Last.kind = "free" THEN 0 ELSE 1)
             /\ chisq' = IncludedSum(NPix)
             /\ nok1' = Cardinality({p \in Pix : Sig[p] > 0})
             /\ dof > 0 =>
                   /\ sfac'.k = "sqrt"
                   /\ sfac'.n * chisq'.d * dof = sfac'.d * chisq'.n
             /\ dof = 0 => sfac'.k = (IF chisq'.n > 0 THEN "inf" ELSE "nan")
             /\ dof < 0 => IF chisq'.n > 0 THEN sfac'.k = "nan"
                                            ELSE sfac' = FSqrt(0, 1)]_vars

\* C22 witness: a rejection step has computed a finite, non-zero scale
\* factor while an earlier rejected pixel has a non-zero residual
C22_Witness ==
    /\ pc = "done"
    /\ Len(log) >= 2
    /\ \E q \in Pix : Res.sigma[q] < 0 /\ arg.data[q] # fit[q]
    /\ nok1 > Len(soln)
    /\ sfac.k = "sqrt" /\ sfac.n > 0
    /\ (\E i \in 1..Len(log) : log[i].kind = "free")

\* C23: the sigma maps built at the start of a fit are strictly positive at
\* every pixel, so the first solve is given every pixel of the window.
C23_SigmaPositive ==
    /\ (pc = "loop" /\ log = << >>) =>
          \A p \in Pix : heap[mfit1.sigma][p] > 0 /\ heap[mfit2.sigma][p] > 0
    /\ Len(log) >= 1 =>
          /\ log[1].nok = NPix
          /\ Len(log[1].resid) = NPix

\* C24: a negative sigma never becomes positive again, in any sigma array;
\* the pixels given to each solve are a subset of those given to every
\* earlier solve of the call; and |sigma| of every pixel stays the value
\* sqrt(read^2 + max(0, data)/gain) computed at construction.
C24_MonotonicRejection ==
    /\ [](/\ \A r \in 1..Len(heap) : \A p \in Pix :
                (Abs(heap[r][p]) * Abs(heap[r][p]) =
                    arg.read * arg.read
                      + (IF arg.data[p] > 0 THEN arg.data[p] ELSE 0) \div arg.gain)
           /\ \A i \in 1..Len(log) : \A j \in i..Len(log) :
                ({q \in Pix : log[j].sig[q] > 0} \subseteq
                    {q \in Pix : log[i].sig[q] > 0}))
    /\ [][\A r \in 1..Len(heap) : \A p \in Pix :
             /\ heap[r][p] < 0 => heap'[r][p] = heap[r][p]
             /\ heap'[r][p] > 0 => heap[r][p] > 0]_vars

\* C24 witness: the call has returned while a pixel rejected earlier is
\* above the threshold of the last rejection step, and is still rejected
C24_Witness ==
    /\ pc = "done"
    /\ Len(log) >= 2
    /\ \E q \in Pix : Sig[q] < 0 /\ Above(q, Sig, sfac)

\* the iterations of the loop started so far: each starts with the solve of
\* the if/else on fwhm_fix
Iterations == Cardinality({i \in 1..Len(log) : log[i].kind \in {"fixed", "free"}})

\* C25: with every leastsq call returning or raising, every call ends, with
\* a result or with an exception; a rejection step that goes back to the
\* top of the loop has strictly decreased the number of included pixels; and
\* the loop runs at most NPix + 1 iterations.
C25_Terminates ==
    /\ <>(result # << >> \/ pc \in Terminal \ {"done"})
    /\ [](Iterations <= NPix + 1)
    /\ [][(pc = "reject" /\ pc' = "loop") =>
             Cardinality({p \in Pix : Sig'[p] > 0})
                < Cardinality({p \in Pix : Sig[p] > 0})]_vars

\* C25 witness: a call that went round the loop twice and returned
C25_Witness ==
    /\ pc = "done"
    /\ result # << >>
    /\ Iterations = 2
    /\ Res.nrej >= 1
    /\ Res.nok < NPix

\* C26: with thresh >= 1 and more included pixels than parameters at the
\* first solve, every scale factor is computed with more included pixels
\* than parameters of the solve just made.
C26_PositiveDof ==
    (/\ pc = "reject"
     /\ arg.thresh >= 1
     /\ log[1].nok > Len(log[1].seed)) =>
        Cardinality({p \in Pix : Sig[p] > 0}) > Len(soln)

\* C27: a returned result is made of the last leastsq call alone, which was
\* given the returned sigma map: the parameters are its solution (with the
\* pinned FWHM inserted after a fixed solve), the errors its covariances
\* times the scale factor, the fit an image of that solve, chisq and nok
\* those of this fit on the returned sigma map, npar its parameter count;
\* and soln, covar and the fit image are always those of the last solve
\* that was kept.
C27_ResultFromLastSolve ==
    /\ [](pc = "done" =>
            /\ Last.used /\ ~Last.exc /\ ~Failed(Last.ier)
            /\ Last.sig = Res.sigma
            /\ Res.pars = (IF Last.kind = "free" THEN Last.soln
                           ELSE SubSeq(Last.soln, 1, 4) \o <<Last.fwhm>>
                                   \o SubSeq(Last.soln, 5, Len(Last.soln)))
            /\ Len(Res.sigs) = Len(Res.pars)
            /\ (Res.sigs[5] = FInt(-1)) <=> (Last.kind # "free")
            /\ \A i \in 1..Len(Res.sigs) :
                  (i # 5 \/ Last.kind = "free") =>
                     Res.sigs[i] = FMul(FSqrt(Last.covar[CovIndex(i)], 1), sfac)
            /\ sfac = Sfac(Res.chisq, Res.nok - Res.npar)
            /\ Res.fit = fit
            /\ Res.fit \in ModelImages(arg.data, Last.sig)
            /\ Res.chisq = IncludedSum(NPix)
            /\ Res.nok = Last.nok
            /\ Res.nok = Cardinality({p \in Pix : Res.sigma[p] > 0})
            /\ Res.npar = Len(Last.soln))
    /\ [][/\ (Solved /\ log'[Len(log')].used) =>
               /\ soln' = log'[Len(log')].soln
               /\ covar' = log'[Len(log')].covar
               /\ fit' \in ModelImages(arg.data, log'[Len(log')].sig)
          /\ fit' # fit => (Solved /\ log'[Len(log')].used)]_vars

\* C27 witness: returned from a second iteration whose free solve was
\* discarded; the fallback solution differs from the discarded one and from
\* the solution of the first iteration
C27_Witness ==
    /\ pc = "done"
    /\ Len(log) >= 4
    /\ Last.kind = "fallback"
    /\ Last.soln[1] # log[Len(log) - 1].soln[1]
    /\ log[Len(log) - 1].soln[5] # arg.fwhm_min
    /\ \E i \in 1..(Len(log) - 2) : log[i].used /\ log[i].soln # Last.soln
    /\ Res.pars[1] = Last.soln[1]
    /\ Res.pars[5] = arg.fwhm_min

\* C28: with fwhm_fix false a returned FWHM is at least fwhm_min; its error
\* is -1 exactly when the result comes from the fallback solve, and then the
\* FWHM is fwhm_min; a result of the free solve has FWHM > fwhm_min and an
\* error other than -1.
C28_FwhmFloor ==
    (pc = "done" /\ ~arg.fwhm_fix) =>
        /\ Res.pars[5] >= arg.fwhm_min
        /\ Last.kind \in {"free", "fallback"}
        /\ (Res.sigs[5] = FInt(-1)) <=> (Last.kind = "fallback")
        /\ Res.sigs[5] = FInt(-1) => Res.pars[5] = arg.fwhm_min
        /\ Last.kind = "free" =>
              /\ Res.pars[5] > arg.fwhm_min
              /\ Res.pars[5] = Last.soln[5]
              /\ Res.sigs[5] # FInt(-1)
              /\ Res.sigs[5].k # "int"

\* C28 witness: started below the floor, returned from a free solve with a
\* fitted FWHM error, after an iteration that went through the fallback
C28_Witness ==
    /\ pc = "done"
    /\ ~arg.fwhm_fix
    /\ arg.fwhm < arg.fwhm_min
    /\ Last.kind = "free"
    /\ Res.pars[5] > arg.fwhm_min
    /\ Res.sigs[5].k \in {"sqrt", "inf", "nan"}
    /\ \E i \in 1..Len(log) : log[i].kind = "fallback"

\* C29: at every fixed-FWHM solve the residual object and the Jacobian
\* object evaluate with the same FWHM, the one stored in both, which is the
\* value pinned for that solve: the caller's fwhm when fwhm_fix is true,
\* fwhm_min in the fallback.
C29_SameFwhm ==
    [][(Solved /\ log'[Len(log')].kind # "free") =>
          LET e == log'[Len(log')]
              pinned == IF arg.fwhm_fix THEN arg.fwhm ELSE arg.fwhm_min
          IN  /\ mfit2'.fwhm = dmfit2'.fwhm
              /\ mfit2'.fwhm = pinned
              /\ e.fwhm = e.jac.fwhm
              /\ e.fwhm = pinned
              /\ e.kind = (IF arg.fwhm_fix THEN "fixed" ELSE "fallback")]_vars

\* C29 witness: a fallback solve that was evaluated with fwhm_min in both
\* objects, which were constructed with another FWHM
C29_Witness ==
    /\ Len(log) >= 2
    /\ Last.kind = "fallback"
    /\ ~Last.exc
    /\ arg.fwhm > arg.fwhm_min
    /\ Last.fwhm = arg.fwhm_min
    /\ Last.jac.fwhm = arg.fwhm_min
    /\ mfit2.fwhm = arg.fwhm_min /\ dmfit2.fwhm = arg.fwhm_min

\* C30: the derivative list of a skip-FWHM evaluation (fixed solve) is the
\* list of a no-skip evaluation (free solve) of the same call with the FWHM
\* derivative, its fifth entry, removed: one array fewer (4 for 5 Gaussian,
\* 5 for 6 Moffat), the others the same expressions in the same order
\* (sky, height, xcen, ycen[, beta]).
C30_SkipDropsFwhmOnly ==
    \A i \in 1..Len(log) : \A j \in 1..Len(log) :
        (log[i].kind = "free" /\ log[j].kind # "free") =>
            LET full == log[i].jac.derivs
                skip == log[j].jac.derivs
            IN  /\ Len(full) = (IF arg.method = "m" THEN 6 ELSE 5)
                /\ Len(skip) = Len(full) - 1
                /\ full[5].wrt = "fwhm"
                /\ skip = SubSeq(full, 1, 4) \o SubSeq(full, 6, Len(full))
                /\ \A c \in 1..Len(skip) : skip[c].wrt # "fwhm"
                /\ [c \in 1..4 |-> skip[c].wrt] = <<"sky", "height", "xcen", "ycen">>
                /\ arg.method = "m" => skip[5].wrt = "beta"

\* C30 witness: a Moffat call in which a no-skip evaluation (six arrays) was
\* followed by a skip evaluation (five arrays, beta last)
C30_Witness ==
    /\ arg.method = "m"
    /\ Len(log) >= 2
    /\ log[1].kind = "free" /\ ~log[1].exc
    /\ log[2].kind = "fallback" /\ ~log[2].exc
    /\ Len(log[1].jac.derivs) = 6
    /\ Len(log[2].jac.derivs) = 5
    /\ log[2].jac.derivs[5] = log[1].jac.derivs[6]

====
